---- MODULE Spec2Model ----
(***************************************************************************)
(* A model of update-notes (src/src/update_notes/processor.py).            *)
(*                                                                         *)
(* Text is a sequence of characters; a character is a one-element string.  *)
(* Two multi-character atoms are kept as single symbols because the code   *)
(* never looks inside them: a date string ("D1", "D2", "D3" for the        *)
(* yyyy-mm-dd of a file name), the word of the default heading ("intro")   *)
(* and a file extension (".md", ".png", ...).                              *)
(*                                                                         *)
(* Spec is process_markdown_files run up to MaxRuns times over one input   *)
(* and one output directory, one action per loop iteration.  The           *)
(* environment may make an I/O operation fail (at most MaxFaults times):   *)
(* the read of a note, either step of the move into oldfiles, the lookup   *)
(* of an image, the open or read of an existing output file.               *)
(* SpecPF and SpecImg are process_file and find_image_references called    *)
(* on their own on every text of a bounded set.                            *)
(***************************************************************************)
EXTENDS Integers, Sequences, FiniteSets, TLC

(***************************************************************************)
(* Bounds of the model.                                                    *)
(***************************************************************************)
MaxNotes == 2     \* notes present in the input directory at the start
MaxRuns == 2      \* calls of process_markdown_files in one behaviour
MaxFaults == 1    \* I/O failures the environment injects in one behaviour
MaxLen == 5       \* characters of a text given to process_file on its own
MaxChunks == 2    \* parts of an image target given to find_image_references

(***************************************************************************)
(* Characters and text helpers (Python str semantics).                     *)
(***************************************************************************)
NL == "\n"

\* str.strip() / str.rstrip() / regex \s: the whitespace of the alphabet
IsSpace(c) == c \in {" ", "\n"}

\* line.strip() == ""
IsBlankLine(line) == \A i \in 1..Len(line) : IsSpace(line[i])

\* not content or all(line.strip() == "" for line in content)
IsEmptyContent(content) == \A i \in 1..Len(content) : IsBlankLine(content[i])

\* content.split('\n')
RECURSIVE SplitLines(_)
SplitLines(s) ==
    IF \A i \in 1..Len(s) : s[i] # NL
    THEN <<s>>
    ELSE LET k == CHOOSE i \in 1..Len(s) :
                     s[i] = NL /\ \A j \in 1..(i - 1) : s[j] # NL
         IN  <<SubSeq(s, 1, k - 1)>> \o SplitLines(SubSeq(s, k + 1, Len(s)))

\* '\n'.join(lines)
RECURSIVE JoinLines(_)
JoinLines(ls) ==
    IF ls = <<>> THEN <<>>
    ELSE IF Len(ls) = 1 THEN ls[1]
    ELSE ls[1] \o <<NL>> \o JoinLines(Tail(ls))

\* str.rstrip()
RECURSIVE RStrip(_)
RStrip(s) ==
    IF s # <<>> /\ IsSpace(s[Len(s)]) THEN RStrip(SubSeq(s, 1, Len(s) - 1)) ELSE s

\* str.lstrip() of whitespace
RECURSIVE LStrip(_)
LStrip(s) == IF s # <<>> /\ IsSpace(s[1]) THEN LStrip(Tail(s)) ELSE s

\* heading.lstrip('#')
RECURSIVE LStripHash(_)
LStripHash(s) == IF s # <<>> /\ s[1] = "#" THEN LStripHash(Tail(s)) ELSE s

\* pat in s
Contains(s, pat) ==
    \E i \in 0..(Len(s) - Len(pat)) : SubSeq(s, i + 1, i + Len(pat)) = pat

(***************************************************************************)
(* process_file                                                            *)
(***************************************************************************)
MaxHashes == 6

\* heading_pattern = ^(#{1,6}\s+.+)$ matched against one line
IsHeading(line) ==
    \E h \in 1..MaxHashes :
        /\ Len(line) >= h + 2
        /\ \A i \in 1..h : line[i] = "#"
        /\ \E w \in 1..(Len(line) - h - 1) :
              \A i \in (h + 1)..(h + w) : IsSpace(line[i])

\* "# はじめに", the heading of the text before the first heading
DefaultHeading == <<"#", " ", "intro">>

\* date_header = f"## {date_str}"
DateHeader(date_str) == <<"#", "#", " ", date_str>>

\* A dict is a record: order = the keys in insertion order, body = the map.
EmptyDict == [order |-> <<>>, body |-> <<>>]

DictHas(d, k) == \E i \in 1..Len(d.order) : d.order[i] = k

\* d[k] = v for a key that may be new
DictPut(d, k, v) ==
    IF DictHas(d, k)
    THEN [d EXCEPT !.body = [i \in 1..Len(d.order) |->
                                IF d.order[i] = k THEN v ELSE d.body[i]]]
    ELSE [order |-> Append(d.order, k), body |-> Append(d.body, v)]

\* d[k]
DictGet(d, k) == d.body[CHOOSE i \in 1..Len(d.order) : d.order[i] = k]

\* the line-by-line loop of process_file
RECURSIVE ScanLines(_, _, _)
ScanLines(lines, current_heading, sections) ==
    IF lines = <<>> THEN sections
    ELSE LET line == Head(lines) IN
         IF IsHeading(line)
         THEN ScanLines(Tail(lines), line,
                        IF DictHas(sections, line) THEN sections
                        ELSE DictPut(sections, line, <<>>))
         ELSE ScanLines(Tail(lines), current_heading,
                        DictPut(sections, current_heading,
                                Append(DictGet(sections, current_heading), line)))

\* a tagging that forgets the trailing blank line
TagWithoutTrailingBlank(lines, date_str) ==
    IF ~IsEmptyContent(lines)
    THEN <<DateHeader(date_str), <<>>>> \o lines
    ELSE lines

\* sections[heading] = [date_header, ""] + lines + [""] where non-empty
TagSection(lines, date_str) ==
    IF ~IsEmptyContent(lines)
    THEN <<DateHeader(date_str), <<>>>> \o lines \o << <<>> >>
    ELSE lines

\* the sections process_file returns for the text of a note
ProcessFile(content, date_str) ==
    LET sections == ScanLines(SplitLines(content), DefaultHeading,
                              DictPut(EmptyDict, DefaultHeading, <<>>))
    IN  [order |-> sections.order,
         body  |-> [i \in 1..Len(sections.order) |->
                       TagSection(sections.body[i], date_str)]]

(***************************************************************************)
(* find_image_references                                                   *)
(***************************************************************************)
\* index of the first c in s at or after position from, 0 when there is none
FirstAt(s, from, c) ==
    IF \E i \in from..Len(s) : s[i] = c
    THEN CHOOSE i \in from..Len(s) : s[i] = c /\ \A j \in from..(i - 1) : s[j] # c
    ELSE 0

\* md_image_pattern = !\[([^\]]*)\]\(([^)]+)\) tried at position i:
\* <<start of group 2, end of the match>>, or <<0, 0>> when it does not match
MdMatchAt(s, i) ==
    IF i + 1 <= Len(s) /\ s[i] = "!" /\ s[i + 1] = "["
    THEN LET j == FirstAt(s, i + 2, "]") IN
         IF j = 0 \/ j + 1 > Len(s) \/ s[j + 1] # "(" THEN <<0, 0>>
         ELSE LET k == FirstAt(s, j + 2, ")") IN
              IF k = 0 \/ k = j + 2 THEN <<0, 0>> ELSE <<j + 2, k>>
    ELSE <<0, 0>>

\* wiki_image_pattern = !\[\[([^\]]+)\]\] tried at position i
WikiMatchAt(s, i) ==
    IF i + 2 <= Len(s) /\ s[i] = "!" /\ s[i + 1] = "[" /\ s[i + 2] = "["
    THEN LET j == FirstAt(s, i + 3, "]") IN
         IF j = 0 \/ j = i + 3 \/ j + 1 > Len(s) \/ s[j + 1] # "]" THEN <<0, 0>>
         ELSE <<i + 3, j + 1>>
    ELSE <<0, 0>>

\* match.group(2) of every match of md_image_pattern.finditer, from position i
RECURSIVE MdTargets(_, _)
MdTargets(s, i) ==
    IF i > Len(s) THEN {}
    ELSE LET m == MdMatchAt(s, i) IN
         IF m[2] = 0 THEN MdTargets(s, i + 1)
         ELSE {SubSeq(s, m[1], m[2] - 1)} \cup MdTargets(s, m[2] + 1)

\* match.group(1) of every match of wiki_image_pattern.finditer, from position i
RECURSIVE WikiTargets(_, _)
WikiTargets(s, i) ==
    IF i > Len(s) THEN {}
    ELSE LET m == WikiMatchAt(s, i) IN
         IF m[2] = 0 THEN WikiTargets(s, i + 1)
         ELSE {SubSeq(s, m[1], m[2] - 2)} \cup WikiTargets(s, m[2] + 1)

\* s.split(c)[0]
BeforeFirst(s, c) ==
    LET k == FirstAt(s, 1, c) IN IF k = 0 THEN s ELSE SubSeq(s, 1, k - 1)

\* a target from which nothing is removed
KeepFragmentQuery(t) == t

\* image_path.split('#')[0].split('?')[0]
StripFragmentQuery(t) == BeforeFirst(BeforeFirst(t, "#"), "?")

SchemeSep == <<":", "/", "/">>

FindImageReferences(content) ==
    {StripFragmentQuery(t) : t \in
        {u \in MdTargets(content, 1) : ~Contains(StripFragmentQuery(u), SchemeSep)}}
    \cup WikiTargets(content, 1)

(***************************************************************************)
(* write_output_files                                                      *)
(***************************************************************************)
\* str.strip()
Strip(s) == RStrip(LStrip(s))

\* the character class [\\/*?:"<>|]
IsUnsafeChar(c) == c \in {"\\", "/", "*", "?", ":", "\"", "<", ">", "|"}

\* a file name in which no character is replaced
UnsanitizedFilename(heading) == Strip(LStripHash(heading)) \o <<".md">>

\* re.sub(r'[\\/*?:"<>|]', '_', heading.lstrip('#').strip()) + '.md'
SafeFilename(heading) ==
    LET heading_text == Strip(LStripHash(heading))
    IN  [i \in 1..Len(heading_text) |->
            IF IsUnsafeChar(heading_text[i]) THEN "_" ELSE heading_text[i]]
        \o <<".md">>

\* a test that never finds the heading
HeadingNeverPresent(existing_content, heading) == FALSE

\* heading_line in existing_content
HeadingPresent(existing_content, heading) ==
    Contains(existing_content, heading \o <<NL>>)

\* the text written when the output file does not exist
NewFileText(heading, content) == JoinLines(<<heading, <<>>>> \o content)

\* an append that overwrites: the existing text is dropped
OverwriteText(raw_text, heading, content) == NewFileText(heading, content)

\* the text written when the output file exists and holds raw_text
AppendText(raw_text, heading, content) ==
    LET existing_content == RStrip(raw_text)
    IN  IF HeadingPresent(existing_content, heading)
        THEN existing_content \o <<NL, NL>> \o JoinLines(content)
        ELSE existing_content \o <<NL, NL>> \o JoinLines(<<heading, <<>>>> \o content)

(***************************************************************************)
(* copy_image_files                                                        *)
(***************************************************************************)
image_extensions == <<".png", ".jpg", ".jpeg", ".gif", ".bmp", ".svg", ".webp">>

\* Path(ref).name: what follows the last "/"
RECURSIVE PathName(_)
PathName(ref) ==
    LET k == FirstAt(ref, 1, "/") IN
    IF k = 0 THEN ref ELSE PathName(SubSeq(ref, k + 1, Len(ref)))

\* Path(ref).suffix is non-empty (an extension is one symbol of the alphabet)
HasSuffix(ref) ==
    ref # <<>> /\ \E e \in 1..Len(image_extensions) : ref[Len(ref)] = image_extensions[e]

\* the names copy_image_files writes into the output directory for one
\* reference, given the files of the input directory
CopiedNames(ref, files) ==
    IF ref \in files THEN {PathName(ref)}
    ELSE IF HasSuffix(ref) THEN {}
    ELSE LET hits == {e \in 1..Len(image_extensions) :
                         ref \o <<image_extensions[e]>> \in files}
         IN  IF hits = {} THEN {}
             ELSE LET e == CHOOSE x \in hits : \A y \in hits : x <= y
                  IN  {PathName(ref) \o <<image_extensions[e]>>}

(***************************************************************************)
(* The files of the model.                                                 *)
(*                                                                         *)
(* A file of the input directory is named by a number: n >= 1 is the daily *)
(* note of date n ("<date n>.md"), 0 is a file whose name has the shape    *)
(* of a date but is no calendar date ("2024-13-45.md"), -1 is a markdown   *)
(* file that is no daily note ("not-a-date.md").                           *)
(***************************************************************************)
\* the dates of the model: yesterday, today and tomorrow of the last run day
DateTok == <<"D1", "D2", "D3">>

Dates == 1..Len(DateTok)

\* the latest date
LastDate == Len(DateTok)

\* date_pattern.match(file_path.name)
MatchesDatePattern(n) == n >= 0

\* datetime(int(year), int(month), int(day)) does not raise ValueError
ValidDate(n) == n >= 1

\* file_date, the sort key
FileDate(n) == n

\* date_str = f"{year}-{month}-{day}"
DateStr(n) == DateTok[n]

HeadA  == <<"#", " ", "a">>
HeadA2 == <<"#", "#", " ", "a">>
HeadAq == <<"#", " ", "a", "?">>
HeadD1 == <<"#", "#", " ", "D1">>

\* "# a\n![[p]]": a section holding one wiki-style image reference
TxtA == HeadA \o <<NL, "!", "[", "[", "p", "]", "]">>
\* "y\n## a\nz\n\n": text before the first heading, a note ending in a blank line
TxtB == <<"y", NL>> \o HeadA2 \o <<NL, "z", NL, NL>>
\* "# a\n \n# a?\nx": a whitespace-only section, a heading with an unsafe character
TxtC == HeadA \o <<NL, " ", NL>> \o HeadAq \o <<NL, "x">>
\* "## D1\nx": a heading that reads like the date marker of date 1
TxtD == HeadD1 \o <<NL, "x">>

NoteTexts == {TxtA, TxtB, TxtC, TxtD}

\* the image files of the input directory
InputImages == {<<"p", ".png">>}

\* An output directory the program can start from: empty, holding the file
\* an earlier run created for "# a" from a note of an earlier date, or
\* holding a stub the user created by hand.
EarlierRunText == NewFileText(HeadA, TagSection(<<<<"w">>>>, "D0"))
StubText == HeadA \o <<NL>>
InitialOutDirs ==
    {<<>>, SafeFilename(HeadA) :> EarlierRunText, SafeFilename(HeadA) :> StubText}

VARIABLES
    today,             \* the calendar date of the runs: a note of tomorrow may exist
    noteText,          \* the text of each daily note (never mutated)
    inputDir,          \* names of the files in the input directory
    oldfiles,          \* names of the files in input_directory/oldfiles
    outDir,            \* output file name -> text
    outImages,         \* names of the image files copied to the output directory
    pc,                \* "idle", "loop", "copy", "write", "done", "raised"
    daily_notes,       \* the (file_path, file_date, date_str) list of the run
    idx,               \* position of the for loop over daily_notes
    heading_contents,  \* the accumulation of the run
    all_image_refs,    \* the image references of the run
    widx,              \* position of the for loop of write_output_files
    readOK,            \* notes process_file returned for in this run
    relocFailed,       \* notes whose move reported "Error moving ..." in this run
    written,           \* <<heading, file name>> of each file written in this run
    created,           \* file name -> the heading whose write created the file
    runs,              \* calls of process_markdown_files so far
    faults,            \* I/O failures so far
    pure_pc,           \* "ready" or "called": a function called on its own
    pf_content,        \* process_file called on its own: the text read
    pf_sections,       \*   and the sections returned
    img_content,       \* find_image_references called on its own: the text
    img_refs           \*   and the set returned

fsVars   == <<inputDir, oldfiles, outDir, outImages>>
runVars  == <<pc, daily_notes, idx, heading_contents, all_image_refs, widx,
              readOK, relocFailed, written, created, runs, faults>>
pureVars == <<pure_pc, pf_content, pf_sections, img_content, img_refs>>
vars     == <<today, noteText, fsVars, runVars, pureVars>>

\* the files and the run before the first call of process_markdown_files
InitFiles ==
    /\ today \in {LastDate - 1, LastDate}
    /\ \E present \in SUBSET Dates :
          /\ Cardinality(present) <= MaxNotes
          /\ inputDir = present \cup {0, -1}
          /\ \E t \in [present -> NoteTexts] :
                noteText = [n \in Dates |-> IF n \in present THEN t[n] ELSE <<>>]
    /\ oldfiles = {}
    /\ outDir \in InitialOutDirs
    /\ outImages = {}
    /\ pc = "idle"
    /\ daily_notes = <<>>
    /\ idx = 1
    /\ heading_contents = EmptyDict
    /\ all_image_refs = {}
    /\ widx = 1
    /\ readOK = {}
    /\ relocFailed = {}
    /\ written = {}
    /\ created = <<>>
    /\ runs = 0
    /\ faults = 0

Init ==
    /\ InitFiles
    /\ pure_pc = "ready"
    /\ pf_content = <<>>
    /\ pf_sections = EmptyDict
    /\ img_content = <<>>
    /\ img_refs = {}

(***************************************************************************)
(* process_markdown_files                                                  *)
(***************************************************************************)
\* the orders in which a directory scan can return the files of a set
RECURSIVE ScanOrders(_)
ScanOrders(S) ==
    IF S = {} THEN {<<>>}
    ELSE UNION {{<<x>> \o rest : rest \in ScanOrders(S \ {x})} : x \in S}

\* list.sort(key=lambda x: x[1]): a stable sort
RECURSIVE InsertByDate(_, _)
InsertByDate(sorted, note) ==
    IF sorted = <<>> THEN <<note>>
    ELSE IF sorted[Len(sorted)][2] <= note[2] THEN Append(sorted, note)
    ELSE Append(InsertByDate(SubSeq(sorted, 1, Len(sorted) - 1), note),
                sorted[Len(sorted)])

RECURSIVE InsertAll(_, _)
InsertAll(sorted, notes) ==
    IF notes = <<>> THEN sorted
    ELSE InsertAll(InsertByDate(sorted, Head(notes)), Tail(notes))

\* a sort that is forgotten: the notes stay in scan order
UnsortedNotes(notes) == notes

SortByDate(notes) == InsertAll(<<>>, notes)

\* the loop over input_directory.glob("*.md"), then the sort
RECURSIVE CollectNotes(_)
CollectNotes(scan) ==
    IF scan = <<>> THEN <<>>
    ELSE LET n == Head(scan) IN
         IF MatchesDatePattern(n) /\ ValidDate(n)
         THEN <<<<n, FileDate(n), DateStr(n)>>>> \o CollectNotes(Tail(scan))
         ELSE CollectNotes(Tail(scan))

DailyNotes(scan) == SortByDate(CollectNotes(scan))

\* a merge without the emptiness test: every section is appended
RECURSIVE MergeAllSections(_, _, _)
MergeAllSections(acc, file_sections, i) ==
    IF i > Len(file_sections.order) THEN acc
    ELSE LET heading == file_sections.order[i]
             acc1 == IF DictHas(acc, heading) THEN acc
                     ELSE DictPut(acc, heading, <<>>)
         IN  MergeAllSections(DictPut(acc1, heading,
                                      DictGet(acc1, heading) \o file_sections.body[i]),
                              file_sections, i + 1)

\* the loop over file_sections.items() that fills heading_contents
RECURSIVE MergeSections(_, _, _)
MergeSections(acc, file_sections, i) ==
    IF i > Len(file_sections.order) THEN acc
    ELSE LET heading == file_sections.order[i]
             content == file_sections.body[i]
             acc1 == IF DictHas(acc, heading) THEN acc
                     ELSE DictPut(acc, heading, <<>>)
             acc2 == IF ~IsEmptyContent(content)
                     THEN DictPut(acc1, heading, DictGet(acc1, heading) \o content)
                     ELSE acc1
         IN  MergeSections(acc2, file_sections, i + 1)

\* What the move of one processed note can do:
\*   "renamed"       file_path.rename(destination) succeeds
\*   "copied"        rename raises OSError, copy2 and unlink succeed
\*   "copy_failed"   rename raises OSError, copy2 raises before writing
\*   "unlink_failed" rename raises OSError, the destination is written (by a
\*                   complete or a partial copy2), the source is not removed
MoveOutcomes == {"renamed", "copied", "copy_failed", "unlink_failed"}
MoveFailures == {"copy_failed", "unlink_failed"}

\* a move that copies and never removes the source
CopyOnlyRelocate(n, outcome, dir, old) ==
    IF outcome = "copy_failed" THEN [dir |-> dir, old |-> old]
    ELSE [dir |-> dir, old |-> old \cup {n}]

\* the directories after the move of note n
Relocate(n, outcome, dir, old) ==
    CASE outcome \in {"renamed", "copied"} -> [dir |-> dir \ {n}, old |-> old \cup {n}]
      [] outcome = "copy_failed"           -> [dir |-> dir, old |-> old]
      [] outcome = "unlink_failed"         -> [dir |-> dir, old |-> old \cup {n}]

\* a move without the except clause: a failure leaves the run
RaisingMove(outcome, i, notes) ==
    IF outcome \in MoveFailures THEN "raised"
    ELSE IF i + 1 > Len(notes) THEN "copy" ELSE "loop"

\* where the run continues after the move of the note at position i: the
\* except clause swallows every failure of the move
AfterMove(outcome, i, notes) == IF i + 1 > Len(notes) THEN "copy" ELSE "loop"

StartRun ==
    /\ pc \in {"idle", "done", "raised"}
    /\ runs < MaxRuns
    /\ \E scan \in ScanOrders({n \in inputDir : MatchesDatePattern(n)}) :
          /\ daily_notes' = DailyNotes(scan)
          /\ pc' = IF DailyNotes(scan) = <<>> THEN "copy" ELSE "loop"
    /\ idx' = 1
    /\ heading_contents' = EmptyDict
    /\ all_image_refs' = {}
    /\ widx' = 1
    /\ readOK' = {}
    /\ relocFailed' = {}
    /\ written' = {}
    /\ runs' = runs + 1
    /\ UNCHANGED <<today, noteText, fsVars, created, faults, pureVars>>

\* open(file_path) or infile.read() raises: the error leaves process_markdown_files
ReadFails ==
    /\ pc = "loop"
    /\ faults < MaxFaults
    /\ pc' = "raised"
    /\ faults' = faults + 1
    /\ UNCHANGED <<today, noteText, fsVars, daily_notes, idx, heading_contents,
                   all_image_refs, widx, readOK, relocFailed, written, created,
                   runs, pureVars>>

\* one iteration of the loop over daily_notes
ProcessNote ==
    /\ pc = "loop"
    /\ \E outcome \in MoveOutcomes :
          LET n == daily_notes[idx][1]
              date_str == daily_notes[idx][3]
              file_sections == ProcessFile(noteText[n], date_str)
              moved == Relocate(n, outcome, inputDir, oldfiles)
          IN  /\ outcome \in MoveFailures => faults < MaxFaults
              /\ heading_contents' = MergeSections(heading_contents, file_sections, 1)
              /\ all_image_refs' = all_image_refs \cup FindImageReferences(noteText[n])
              /\ readOK' = readOK \cup {n}
              /\ inputDir' = moved.dir
              /\ oldfiles' = moved.old
              /\ relocFailed' = IF outcome \in MoveFailures
                                THEN relocFailed \cup {n} ELSE relocFailed
              /\ faults' = IF outcome \in MoveFailures THEN faults + 1 ELSE faults
              /\ pc' = AfterMove(outcome, idx, daily_notes)
    /\ idx' = idx + 1
    /\ UNCHANGED <<today, noteText, outDir, outImages, daily_notes, widx, written,
                   created, runs, pureVars>>

\* where the run continues when write_output_files is at position i
AfterWrite(i, acc) == IF i > Len(acc.order) THEN "done" ELSE "write"

\* copy_image_files(input_directory, output_directory, all_image_refs)
CopyImages ==
    /\ pc = "copy"
    /\ outImages' = outImages \cup
                    UNION {CopiedNames(ref, InputImages) : ref \in all_image_refs}
    /\ pc' = AfterWrite(1, heading_contents)
    /\ UNCHANGED <<today, noteText, inputDir, oldfiles, outDir, daily_notes, idx,
                   heading_contents, all_image_refs, widx, readOK, relocFailed,
                   written, created, runs, faults, pureVars>>

\* source_path.exists() raises for a reference the file system rejects (it
\* is outside the try of the copy): the error leaves process_markdown_files
CopyFails ==
    /\ pc = "copy"
    /\ all_image_refs # {}
    /\ faults < MaxFaults
    /\ pc' = "raised"
    /\ faults' = faults + 1
    /\ UNCHANGED <<today, noteText, fsVars, daily_notes, idx, heading_contents,
                   all_image_refs, widx, readOK, relocFailed, written, created,
                   runs, pureVars>>

\* one iteration of the loop of write_output_files
WriteHeading ==
    /\ pc = "write"
    /\ LET heading == heading_contents.order[widx]
           content == heading_contents.body[widx]
           safe_filename == SafeFilename(heading)
       IN  IF IsEmptyContent(content)
           THEN UNCHANGED <<outDir, written, created>>
           ELSE /\ written' = written \cup {<<heading, safe_filename>>}
                /\ IF safe_filename \in DOMAIN outDir
                   THEN /\ outDir' = [outDir EXCEPT ![safe_filename] =
                                         AppendText(@, heading, content)]
                        /\ UNCHANGED created
                   ELSE /\ outDir' = (safe_filename :> NewFileText(heading, content))
                                     @@ outDir
                        /\ created' = (safe_filename :> heading) @@ created
    /\ widx' = widx + 1
    /\ pc' = AfterWrite(widx + 1, heading_contents)
    /\ UNCHANGED <<today, noteText, inputDir, oldfiles, outImages, daily_notes, idx,
                   heading_contents, all_image_refs, readOK, relocFailed, runs,
                   faults, pureVars>>

\* opening or reading the output file raises (a permission, a text that is
\* not UTF-8) before anything is written: the error leaves
\* process_markdown_files and the file is as it was
WriteFails ==
    /\ pc = "write"
    /\ ~IsEmptyContent(heading_contents.body[widx])
    /\ faults < MaxFaults
    /\ pc' = "raised"
    /\ faults' = faults + 1
    /\ UNCHANGED <<today, noteText, fsVars, daily_notes, idx, heading_contents,
                   all_image_refs, widx, readOK, relocFailed, written, created,
                   runs, pureVars>>

Next ==
    \/ StartRun
    \/ ReadFails
    \/ ProcessNote
    \/ CopyImages
    \/ CopyFails
    \/ WriteHeading
    \/ WriteFails

Spec == Init /\ [][Next]_vars

(***************************************************************************)
(* process_file called on its own, on every text of at most MaxLen         *)
(* characters over a four-character alphabet.                              *)
(***************************************************************************)
PFChars == {"#", " ", "x", NL}

RECURSIVE TextsUpTo(_, _)
TextsUpTo(chars, n) ==
    IF n = 0 THEN {<<>>}
    ELSE LET shorter == TextsUpTo(chars, n - 1)
         IN  shorter \cup {Append(t, c) : t \in shorter, c \in chars}

\* an empty input directory: nothing for process_markdown_files to do
NoFiles ==
    /\ today = LastDate
    /\ noteText = [n \in Dates |-> <<>>]
    /\ inputDir = {}
    /\ oldfiles = {}
    /\ outDir = <<>>
    /\ outImages = {}
    /\ pc = "idle"
    /\ daily_notes = <<>>
    /\ idx = 1
    /\ heading_contents = EmptyDict
    /\ all_image_refs = {}
    /\ widx = 1
    /\ readOK = {}
    /\ relocFailed = {}
    /\ written = {}
    /\ created = <<>>
    /\ runs = 0
    /\ faults = 0

InitPF ==
    /\ NoFiles
    /\ pure_pc = "ready"
    /\ pf_content \in TextsUpTo(PFChars, MaxLen)
    /\ pf_sections = EmptyDict
    /\ img_content = <<>>
    /\ img_refs = {}

\* sections, _ = process_file(file_path, "D1") on a file holding pf_content
CallProcessFile ==
    /\ pure_pc = "ready"
    /\ pf_sections' = ProcessFile(pf_content, "D1")
    /\ pure_pc' = "called"
    /\ UNCHANGED <<today, noteText, fsVars, runVars, pf_content, img_content, img_refs>>

NextPF == CallProcessFile

SpecPF == InitPF /\ [][NextPF]_vars

(***************************************************************************)
(* find_image_references called on its own, on texts made of two pieces:   *)
(* an inline image, a wiki-style image, or loose punctuation.              *)
(***************************************************************************)
ImgChunks == {<<"p">>, <<"#">>, <<"?">>, <<":", "/", "/">>}

RECURSIVE Targets(_)
Targets(n) ==
    IF n = 0 THEN {<<>>}
    ELSE LET shorter == Targets(n - 1)
         IN  shorter \cup {t \o c : t \in shorter, c \in ImgChunks}

ImgPieces ==
    {<<"!", "[", "p", "]", "(">> \o t \o <<")">> : t \in Targets(MaxChunks)}
    \cup {<<"!", "[", "[">> \o t \o <<"]", "]">> : t \in Targets(MaxChunks)}
    \cup {<<>>, <<"p">>, <<"!", "[">>, <<"]">>, <<")">>}

InitImg ==
    /\ NoFiles
    /\ pure_pc = "ready"
    /\ pf_content = <<>>
    /\ pf_sections = EmptyDict
    /\ img_content \in {a \o b : a \in ImgPieces, b \in ImgPieces}
    /\ img_refs = {}

\* img_refs = find_image_references(img_content)
CallFindImageReferences ==
    /\ pure_pc = "ready"
    /\ img_refs' = FindImageReferences(img_content)
    /\ pure_pc' = "called"
    /\ UNCHANGED <<today, noteText, fsVars, runVars, pf_content, pf_sections, img_content>>

NextImg == CallFindImageReferences

SpecImg == InitImg /\ [][NextImg]_vars

(***************************************************************************)
(* Properties.  Helpers of the statements below.                           *)
(***************************************************************************)
\* text p is the start of text s
IsPrefix(p, s) == Len(p) <= Len(s) /\ SubSeq(s, 1, Len(p)) = p

\* the names of the notes the run found
FoundNotes == {daily_notes[i][1] : i \in 1..Len(daily_notes)}

\* the date-tagged body process_file gives heading H of note n (<<>> when
\* the note has no such heading)
TaggedBody(n, H) ==
    LET fs == ProcessFile(noteText[n], DateStr(n))
    IN  IF DictHas(fs, H) THEN DictGet(fs, H) ELSE <<>>

\* note n has a non-empty section under H
HasSection(n, H) == ~IsEmptyContent(TaggedBody(n, H))

\* the positions at which the list sub occurs in the list seq
Occurrences(sub, seq) ==
    {i \in 1..(Len(seq) - Len(sub) + 1) : SubSeq(seq, i, i + Len(sub) - 1) = sub}

\* what process_file returns for each note of S
SectionsOf(S) == [n \in S |-> ProcessFile(noteText[n], DateStr(n))]

\* the body of H in the sections fs of one note (<<>> when H is no key)
BodyIn(fs, H) == IF DictHas(fs, H) THEN DictGet(fs, H) ELSE <<>>

\* the non-empty bodies of H in secs, concatenated by ascending date
RECURSIVE BodiesByDate(_, _, _)
BodiesByDate(secs, H, d) ==
    IF d > LastDate THEN <<>>
    ELSE (IF d \in DOMAIN secs /\ ~IsEmptyContent(BodyIn(secs[d], H))
          THEN BodyIn(secs[d], H) ELSE <<>>)
         \o BodiesByDate(secs, H, d + 1)

(***************************************************************************)
(* C1: a daily note dated today is excluded from the run: it is not read   *)
(* by process_file and not moved into oldfiles, while every other validly  *)
(* dated note has been read when the run completes.                        *)
(* The code has no such exclusion: C1_SkipsToday is violated.              *)
(***************************************************************************)
C1_SkipsToday ==
    /\ \A n \in Dates : FileDate(n) = today => n \notin readOK /\ n \notin oldfiles
    /\ pc = "done" => \A n \in FoundNotes : FileDate(n) # today => n \in readOK

(***************************************************************************)
(* C2: merging is order-preserving and additive.  For two notes read in    *)
(* the run, dated D1 < D2, that both have a non-empty section under H, the *)
(* accumulated list of H holds the tagged body of D1 and, after it, the    *)
(* tagged body of D2, each exactly once and contiguous; the whole list is  *)
(* the tagged bodies of the notes read so far, in ascending date order.    *)
(***************************************************************************)
C2_MergeOrdered ==
    LET secs == SectionsOf(readOK) IN
    \A i \in 1..Len(heading_contents.order) :
        LET H == heading_contents.order[i]
            acc == heading_contents.body[i]
            body == [n \in readOK |-> BodyIn(secs[n], H)]
        IN  /\ acc = BodiesByDate(secs, H, 1)
            /\ \A n1, n2 \in readOK :
                  (/\ FileDate(n1) < FileDate(n2)
                   /\ ~IsEmptyContent(body[n1])
                   /\ ~IsEmptyContent(body[n2]))
                  => LET o1 == Occurrences(body[n1], acc)
                         o2 == Occurrences(body[n2], acc)
                     IN  /\ Cardinality(o1) = 1
                         /\ Cardinality(o2) = 1
                         /\ \A p1 \in o1, p2 \in o2 : p1 + Len(body[n1]) <= p2

\* two notes sharing a heading have both been merged, with other headings present
C2_Witness ==
    /\ pc = "done"
    /\ Len(heading_contents.order) >= 2
    /\ \E n1, n2 \in readOK : \E i \in 1..Len(heading_contents.order) :
          /\ FileDate(n1) < FileDate(n2)
          /\ HasSection(n1, heading_contents.order[i])
          /\ HasSection(n2, heading_contents.order[i])

(***************************************************************************)
(* C3 as stated: output files are append-only.  Whenever a file of the     *)
(* output directory changes, its complete earlier text is the start of its *)
(* new text.  Violated: the earlier text loses its trailing whitespace.    *)
(***************************************************************************)
C3_WholeTextKept ==
    [][\A f \in DOMAIN outDir :
          f \in DOMAIN outDir' /\ IsPrefix(outDir[f], outDir'[f])]_vars

(***************************************************************************)
(* C3 as amended: whenever a file of the output directory changes, its     *)
(* earlier text with the trailing whitespace trimmed is the start of its   *)
(* new text, and no output file disappears.                                *)
(***************************************************************************)
C3_TrimmedTextKept ==
    [][\A f \in DOMAIN outDir :
          f \in DOMAIN outDir' /\ IsPrefix(RStrip(outDir[f]), outDir'[f])]_vars

\* a run has appended to a file that existed before the write
C3_Witness ==
    /\ pc = "done"
    /\ \E w \in written :
          /\ outDir[w[2]] # NewFileText(w[1], DictGet(heading_contents, w[1]))
          /\ IsPrefix(RStrip(EarlierRunText), outDir[w[2]])

(***************************************************************************)
(* C4: a failed move does not abort the run.  The step in which the move   *)
(* of a note fails leaves the note in the input directory, keeps what was  *)
(* merged from it and goes on to the next note (or to the copy of the      *)
(* images) without raising; no step that processes a note raises.  When    *)
(* the run then completes, every note found was read, every note whose     *)
(* move did not fail is archived, and each non-empty section of a note     *)
(* whose move failed is in the output file of its heading.                 *)
(***************************************************************************)
C4_MoveFailureStep ==
    (pc = "loop" /\ readOK' # readOK)
    => /\ pc' \in {"loop", "copy"}
       /\ idx' = idx + 1
       /\ heading_contents' =
             MergeSections(heading_contents,
                           ProcessFile(noteText[daily_notes[idx][1]],
                                       daily_notes[idx][3]), 1)
       /\ relocFailed' # relocFailed => daily_notes[idx][1] \in inputDir'

C4_AtCompletion ==
    pc = "done" =>
       /\ FoundNotes \subseteq readOK
       /\ \A n \in FoundNotes \ relocFailed : n \in oldfiles /\ n \notin inputDir
       /\ \A n \in relocFailed :
             /\ n \in inputDir
             /\ \A i \in 1..Len(heading_contents.order) :
                   LET H == heading_contents.order[i] IN
                   HasSection(n, H) =>
                      /\ SafeFilename(H) \in DOMAIN outDir
                      /\ Contains(outDir[SafeFilename(H)],
                                  RStrip(JoinLines(TaggedBody(n, H))))

C4_MoveFailureContained == [][C4_MoveFailureStep]_vars /\ []C4_AtCompletion

\* a run completed although the move of an earlier note failed, and a later
\* note was processed and archived
C4_Witness ==
    /\ pc = "done"
    /\ \E n \in relocFailed : \E m \in FoundNotes :
          /\ FileDate(n) < FileDate(m)
          /\ m \in oldfiles
          /\ \E i \in 1..Len(heading_contents.order) :
                HasSection(n, heading_contents.order[i])

(***************************************************************************)
(* C5 as stated: at the end of a run a note the run found is in oldfiles   *)
(* and gone from the input directory if and only if process_file read it   *)
(* without error in that run.  Violated: a note that was read stays when   *)
(* its move fails.                                                         *)
(***************************************************************************)
C5_ArchivedIffRead ==
    pc \in {"done", "raised"} =>
       \A n \in FoundNotes : (n \in oldfiles /\ n \notin inputDir) <=> n \in readOK

(***************************************************************************)
(* C5 as amended: at the end of a run a note the run found is in oldfiles  *)
(* and gone from the input directory if and only if process_file read it   *)
(* without error in that run and its move did not fail; a note whose move  *)
(* failed, and a note that was not read, is still in the input directory.  *)
(***************************************************************************)
C5_ArchivedIffReadAndMoved ==
    pc \in {"done", "raised"} =>
       \A n \in FoundNotes :
          /\ (n \in oldfiles /\ n \notin inputDir) <=> (n \in readOK /\ n \notin relocFailed)
          /\ (n \in relocFailed \/ n \notin readOK) => n \in inputDir

\* a run ended by a read error after it had archived an earlier note
C5_Witness ==
    /\ pc = "raised"
    /\ \E n \in FoundNotes : n \in readOK /\ n \in oldfiles
    /\ \E n \in FoundNotes : n \notin readOK

(***************************************************************************)
(* C6 as stated: the accumulation never holds an entry whose line list is  *)
(* empty or blank-only.  Violated: a heading whose section is empty gets   *)
(* a key with an empty list.                                               *)
(***************************************************************************)
C6_NoEmptyEntry ==
    \A i \in 1..Len(heading_contents.order) :
        ~IsEmptyContent(heading_contents.body[i])

(***************************************************************************)
(* C6 as amended: every entry of the accumulation is either the empty list *)
(* or holds a non-blank line; an empty or whitespace-only section creates  *)
(* the key of its heading but adds no line to it.                          *)
(***************************************************************************)
C6_NoBlankOnlyEntry ==
    /\ \A i \in 1..Len(heading_contents.order) :
          \/ heading_contents.body[i] = <<>>
          \/ ~IsEmptyContent(heading_contents.body[i])
    /\ \A n \in readOK :
          LET fs == ProcessFile(noteText[n], DateStr(n))
          IN  \A k \in 1..Len(fs.order) : DictHas(heading_contents, fs.order[k])

\* a whitespace-only section has been merged and left its key empty
C6_Witness ==
    \E n \in readOK : \E i \in 1..Len(heading_contents.order) :
        /\ TaggedBody(n, heading_contents.order[i]) # <<>>
        /\ IsEmptyContent(TaggedBody(n, heading_contents.order[i]))
        /\ heading_contents.body[i] = <<>>

(***************************************************************************)
(* Helpers of the statements about the functions called on their own.      *)
(***************************************************************************)
\* no line of the text is a heading line
NoHeadingLine(content) ==
    \A i \in 1..Len(SplitLines(content)) : ~IsHeading(SplitLines(content)[i])

\* the longest start of t that holds neither '#' nor '?'
CutTarget(t) ==
    LET stops == {i \in 1..Len(t) : t[i] \in {"#", "?"}}
    IN  IF stops = {} THEN t
        ELSE SubSeq(t, 1, (CHOOSE i \in stops : \A j \in stops : i <= j) - 1)

(***************************************************************************)
(* C7 as stated: for every text without a heading line process_file        *)
(* returns exactly one key, the default heading, whose body is the date    *)
(* marker, a blank line, the lines of the text and a trailing blank line.  *)
(* Violated: a text that is empty or blank-only is returned untagged.      *)
(***************************************************************************)
C7_NoHeadingAlwaysTagged ==
    (pure_pc = "called" /\ NoHeadingLine(pf_content))
    => /\ pf_sections.order = <<DefaultHeading>>
       /\ pf_sections.body[1] =
             <<DateHeader("D1"), <<>>>> \o SplitLines(pf_content) \o << <<>> >>

(***************************************************************************)
(* C7 as amended: for every text without a heading line process_file       *)
(* returns exactly one key, the default heading (never an empty mapping);  *)
(* when the text has a non-blank line its body is the date marker, a blank *)
(* line, the lines of the text and a trailing blank line; when the text is *)
(* empty or blank-only its body is the lines of the text, untagged.        *)
(***************************************************************************)
C7_NoHeadingTaggedIfNonBlank ==
    (pure_pc = "called" /\ NoHeadingLine(pf_content))
    => /\ pf_sections.order = <<DefaultHeading>>
       /\ Len(pf_sections.body) = 1
       /\ pf_sections.body[1] =
             IF \E i \in 1..Len(pf_content) : ~IsSpace(pf_content[i])
             THEN <<DateHeader("D1"), <<>>>> \o SplitLines(pf_content) \o << <<>> >>
             ELSE SplitLines(pf_content)

\* process_file has returned for a text of several lines, none a heading,
\* one of them not blank, one of them starting with '#'
C7_Witness ==
    /\ pure_pc = "called"
    /\ NoHeadingLine(pf_content)
    /\ Len(SplitLines(pf_content)) >= 2
    /\ \E i \in 1..Len(pf_content) : pf_content[i] = "x"
    /\ \E i \in 1..Len(pf_content) : pf_content[i] = "#"

(***************************************************************************)
(* C8 as stated: no reference of the result holds '://', from either       *)
(* syntax; an inline target that holds '://' contributes nothing; every    *)
(* reference that comes from the inline syntax has no '#' or '?' suffix.   *)
(* Violated: a wiki-style target is returned verbatim, '://' included, and *)
(* an inline target whose '://' lies in its fragment or query is kept.     *)
(***************************************************************************)
C8_NoSchemeAnywhere ==
    pure_pc = "called" =>
       /\ \A r \in img_refs : ~Contains(r, SchemeSep)
       /\ (/\ WikiTargets(img_content, 1) = {}
           /\ \A t \in MdTargets(img_content, 1) : Contains(t, SchemeSep))
          => img_refs = {}
       /\ \A r \in img_refs \ WikiTargets(img_content, 1) :
             \A i \in 1..Len(r) : r[i] \notin {"#", "?"}

(***************************************************************************)
(* C8 as amended: the result is the wiki-style targets, verbatim, together *)
(* with every inline target cut before its first '#' or '?', except those  *)
(* whose cut form holds '://'.  So a reference that comes only from the    *)
(* inline syntax holds no '://', no '#' and no '?'.                        *)
(***************************************************************************)
C8_InlineCutAndLocal ==
    pure_pc = "called" =>
       /\ img_refs = WikiTargets(img_content, 1) \cup
                     {CutTarget(t) : t \in {u \in MdTargets(img_content, 1) :
                                              ~Contains(CutTarget(u), SchemeSep)}}
       /\ \A r \in img_refs \ WikiTargets(img_content, 1) :
             /\ ~Contains(r, SchemeSep)
             /\ \A i \in 1..Len(r) : r[i] \notin {"#", "?"}

\* an inline target with a fragment or query was returned cut, next to an
\* inline target that was dropped for its '://'
C8_Witness ==
    /\ pure_pc = "called"
    /\ \E t \in MdTargets(img_content, 1) :
          CutTarget(t) # t /\ CutTarget(t) # <<>> /\ CutTarget(t) \in img_refs
    /\ \E t \in MdTargets(img_content, 1) :
          Contains(CutTarget(t), SchemeSep) /\ CutTarget(t) \notin img_refs

(***************************************************************************)
(* Helpers of the statements about write_output_files.                     *)
(***************************************************************************)
\* the headings of the accumulation that have non-empty content
NonEmptyHeadings ==
    {heading_contents.order[i] : i \in
        {k \in 1..Len(heading_contents.order) :
            ~IsEmptyContent(heading_contents.body[k])}}

\* the file names write_output_files is expected to derive for the headings
\* of the model's notes (as the repository's test expects "見出し 2__.md")
ExpectedFile(heading) ==
    CASE heading = DefaultHeading -> <<"intro", ".md">>
      [] heading = HeadA  -> <<"a", ".md">>
      [] heading = HeadA2 -> <<"a", ".md">>
      [] heading = HeadAq -> <<"a", "_", ".md">>
      [] heading = HeadD1 -> <<"D1", ".md">>

\* the number of lines of a text that are equal to line
LineCount(text, line) ==
    Cardinality({i \in 1..Len(SplitLines(text)) : SplitLines(text)[i] = line})

(***************************************************************************)
(* C9 as stated: when write_output_files has returned, two different       *)
(* heading keys with non-empty content were never written into the same    *)
(* file, and the number of files written is the number of such keys.       *)
(* Violated: "# a" and "## a" are both written into "a.md".                *)
(***************************************************************************)
C9_OneFilePerHeading ==
    pc = "done" =>
       /\ \A w1, w2 \in written : w1[1] # w2[1] => w1[2] # w2[2]
       /\ Cardinality({w[2] : w \in written}) = Cardinality(NonEmptyHeadings)

(***************************************************************************)
(* C9 as amended: when write_output_files has returned, every heading key  *)
(* with non-empty content was written to exactly one file, the one named   *)
(* by its heading text without the leading '#'s and surrounding            *)
(* whitespace and with each unsafe character replaced by '_'; two keys     *)
(* share a file exactly when these names are equal, so the number of files *)
(* written is the number of distinct names, at most the number of keys.    *)
(***************************************************************************)
C9_OneFilePerName ==
    pc = "done" =>
       /\ {w[1] : w \in written} = NonEmptyHeadings
       /\ \A w \in written : w[2] = ExpectedFile(w[1]) /\ w[2] \in DOMAIN outDir
       /\ \A w1, w2 \in written :
             w1[2] = w2[2] <=> ExpectedFile(w1[1]) = ExpectedFile(w2[1])
       /\ Cardinality({w[2] : w \in written})
             = Cardinality({ExpectedFile(h) : h \in NonEmptyHeadings})
       /\ Cardinality({w[2] : w \in written}) <= Cardinality(NonEmptyHeadings)

\* one call wrote two different headings into one file
C9_Witness ==
    /\ pc = "done"
    /\ \E w1, w2 \in written : w1[1] # w2[1] /\ w1[2] = w2[2]

(***************************************************************************)
(* C10 as stated: in a file that write_output_files created for heading H, *)
(* H followed by a line break is always found, and the line H occurs       *)
(* exactly once, as the first line.                                        *)
(* Violated: a note of date D1 with the heading "## D1" puts the same line *)
(* into the file again as the date marker of its content.                  *)
(***************************************************************************)
C10_HeadingExactlyOnce ==
    \A f \in DOMAIN created :
        /\ Contains(RStrip(outDir[f]), created[f] \o <<NL>>)
        /\ SplitLines(outDir[f])[1] = created[f]
        /\ LineCount(outDir[f], created[f]) = 1

(***************************************************************************)
(* C10 as amended: in a file that write_output_files created for heading   *)
(* H, H is the first line and H followed by a line break is always found   *)
(* in the trimmed text, so a later write for H appends only two newlines   *)
(* and the new content and never writes the heading line again; the line H *)
(* occurs exactly once unless H is itself the date marker of a note.  A    *)
(* write to an existing file inserts the heading line (heading, blank      *)
(* line, content) exactly when the heading followed by a line break does   *)
(* not occur in the existing text with its trailing whitespace trimmed.    *)
(***************************************************************************)
C10_CreatedFile ==
    \A f \in DOMAIN created :
        /\ Contains(RStrip(outDir[f]), created[f] \o <<NL>>)
        /\ SplitLines(outDir[f])[1] = created[f]
        /\ (\A d \in Dates : created[f] # DateHeader(DateStr(d)))
           => LineCount(outDir[f], created[f]) = 1

C10_AppendStep ==
    (pc = "write" /\ widx' = widx + 1)
    => LET heading == heading_contents.order[widx]
           content == heading_contents.body[widx]
           f == SafeFilename(heading)
           old == IF f \in DOMAIN outDir THEN RStrip(outDir[f]) ELSE <<>>
       IN  (~IsEmptyContent(content) /\ f \in DOMAIN outDir)
           => /\ outDir'[f] =
                    IF Contains(old, heading \o <<NL>>)
                    THEN old \o <<NL, NL>> \o JoinLines(content)
                    ELSE old \o <<NL, NL>> \o heading \o <<NL, NL>> \o JoinLines(content)
              /\ (f \in DOMAIN created /\ created[f] = heading)
                 => outDir'[f] = old \o <<NL, NL>> \o JoinLines(content)

C10_HeadingWrittenOnce == []C10_CreatedFile /\ [][C10_AppendStep]_vars

\* a later run appended, for the same heading and no other, to the file an
\* earlier run had created for it
C10_Witness ==
    /\ pc = "done"
    /\ runs = 2
    /\ \E w \in written :
          /\ w[2] \in DOMAIN created
          /\ created[w[2]] = w[1]
          /\ \A v \in written : v[2] = w[2] => v = w
          /\ outDir[w[2]] # NewFileText(w[1], DictGet(heading_contents, w[1]))

(***************************************************************************)
(* Helpers of the statements about archived notes and repeated runs.       *)
(***************************************************************************)
\* the text a tagged body has inside an output file: its lines joined, the
\* trailing whitespace a later append trims left out
BodyText(body) == RStrip(JoinLines(body))

\* every non-empty tagged section of note n is in the file of its heading
ContentWritten(n) ==
    LET fs == ProcessFile(noteText[n], DateStr(n)) IN
    \A k \in 1..Len(fs.order) :
        ~IsEmptyContent(fs.body[k])
        => /\ SafeFilename(fs.order[k]) \in DOMAIN outDir
           /\ Contains(outDir[SafeFilename(fs.order[k])], BodyText(fs.body[k]))

\* no non-empty tagged section of note n is in the file of its heading twice
ContentAtMostOnce(n) ==
    LET fs == ProcessFile(noteText[n], DateStr(n)) IN
    \A k \in 1..Len(fs.order) :
        (~IsEmptyContent(fs.body[k]) /\ SafeFilename(fs.order[k]) \in DOMAIN outDir)
        => Cardinality(Occurrences(BodyText(fs.body[k]),
                                   outDir[SafeFilename(fs.order[k])])) <= 1

(***************************************************************************)
(* C11: no note is archived without its content reaching the output.  In   *)
(* every state in which process_markdown_files has stopped (it returned,   *)
(* or an error left it), each note that is in oldfiles has every non-empty *)
(* date-tagged section in the output file of its heading.                  *)
(* Violated: the notes are moved inside the loop, the files are written    *)
(* after it, and an error of a later read, of the image copy or of a write *)
(* leaves the run in between.                                              *)
(***************************************************************************)
C11_ArchivedContentWritten ==
    pc \in {"done", "raised"} => \A n \in oldfiles : ContentWritten(n)

(***************************************************************************)
(* C12: over any sequence of runs on the same directories, the date-tagged *)
(* body of each section of each daily note is in the output file of its    *)
(* heading at most once, also when the move of the note failed in an       *)
(* earlier run and the note stayed in the input directory.                 *)
(* Violated: a note whose move failed is found, read and appended again by *)
(* the next run.                                                           *)
(***************************************************************************)
C12_AppendedAtMostOnce ==
    \A n \in Dates : noteText[n] # <<>> => ContentAtMostOnce(n)

====
